---- MODULE Spec2Model ----
(***************************************************************************)
(* A cluster of paxos-from-scratch nodes (src/main.rs).  Every node owns   *)
(* an AppState (peer list, Acceptor, Proposer counter, Ledger), each part  *)
(* behind its own tokio Mutex, and serves the HTTP handlers connect, ping, *)
(* prepare, handle_prepare, handle_accept and handle_learn.  A request     *)
(* sent to a peer is a slot of the sender's fan-out: it is pending until   *)
(* the peer's handler serves it or the transport fails it.                 *)
(***************************************************************************)
EXTENDS Integers, Sequences, FiniteSets, TLC

VARIABLES
    nodes,          \* AppState.nodes of every node: the ordered peer list (ids)
    acceptor,       \* AppState.acceptor of every node
    proposer,       \* AppState.proposer of every node
    ledger,         \* AppState.ledger of every node
    accepted_at,    \* the id of the ballot whose accept last wrote accepted_proposal (0: none)
    mutex,          \* holder of each node's proposer, nodes and ledger Mutex
    round,          \* the prepare handler's tasks, in the order they took the proposer Mutex
    handshake,      \* the connect handler's task of every node towards every port
    connects,       \* number of connect requests received so far
    lost,           \* number of requests the transport failed so far
    limit           \* how many rounds, lost requests and connects a behaviour may hold,
                    \* whether its clients wait for each other and which nodes they
                    \* submit values to

vars == <<nodes, acceptor, proposer, ledger, accepted_at, mutex, round, handshake,
          connects, lost, limit>>

\* ------------------------------------------------------------------ bounds

NodeIds == {1, 2, 3}
Values == {"a", "b"}

\* rounds and lost requests of a behaviour of the fully joined cluster
MaxRounds == 1
MaxLost == 2
\* rounds and lost requests of a behaviour whose clients submit one value at a time
MaxSerialRounds == 3
MaxSerialLost == 1
\* the greatest ballot id of a cluster in mid-life, and the rounds and lost requests
\* that follow
MaxBallot == 2
MaxMidRounds == 1
MaxMidLost == 1
\* connect requests and lost requests of a behaviour of the joining cluster
MaxConnects == 3
MaxJoinLost == 1

BallotIds == 0..MaxBallot

\* ------------------------------------------------------------------ data

None == <<>>
Some(x) == <<x>>
is_some(o) == o /= <<>>
unwrap(o) == o[1]
unwrap_or(o, d) == IF o = <<>> THEN d ELSE o[1]

OK == "200 OK"
BAD_REQUEST == "400 Bad Request"

StaleProposal == "The proposal ID is lesser than the last accepted ballot number"
BallotMismatch == "Node received a proposal with a ballot ID different!"
PrepareQuorumNotReached == "Proposal does not receive promises of the entire quorum"
ProposeQuorumNotReached == "Proposal not accepted by majority"
SelfPeer == "You can't connect in the same node!"
DuplicatePeer == "You're already connected in this node!"

Ballot(id, value) == [id |-> id, value |-> value]

AcceptorDefault == [last_ballot_number |-> 0, accepted_proposal |-> None]
ProposerNew == [id |-> 0]
LedgerNew == [k \in {} |-> ""]

insert(map, k, v) == [x \in (DOMAIN map) \cup {k} |-> IF x = k THEN v ELSE map[x]]

\* ------------------------------------------------------------------ Acceptor and Ledger handlers

\* handle_prepare that also rejects an id equal to last_ballot_number
handle_prepare_rejects_equal(acc, proposal_id) ==
    IF proposal_id <= acc.last_ballot_number
    THEN [acceptor |-> acc,
          status |-> BAD_REQUEST,
          body |-> [error |-> Some(StaleProposal), value |-> None]]
    ELSE LET promised == [acc EXCEPT !.last_ballot_number = proposal_id]
         IN [acceptor |-> promised,
             status |-> OK,
             body |-> [error |-> None,
                       value |-> Some(Ballot(proposal_id, promised.accepted_proposal))]]

\* handle_prepare without the early return of the stale branch
handle_prepare_no_return(acc, proposal_id) ==
    LET promised == [acc EXCEPT !.last_ballot_number = proposal_id]
    IN IF proposal_id < acc.last_ballot_number
       THEN [acceptor |-> promised,
             status |-> BAD_REQUEST,
             body |-> [error |-> Some(StaleProposal), value |-> None]]
       ELSE [acceptor |-> promised,
             status |-> OK,
             body |-> [error |-> None,
                       value |-> Some([id |-> proposal_id, value |-> promised.accepted_proposal])]]

handle_prepare(acc, proposal_id) ==
    IF proposal_id < acc.last_ballot_number
    THEN [acceptor |-> acc,
          status |-> BAD_REQUEST,
          body |-> [error |-> Some(StaleProposal), value |-> None]]
    ELSE LET promised == [acc EXCEPT !.last_ballot_number = proposal_id]
         IN IF is_some(promised.accepted_proposal)
            THEN [acceptor |-> promised,
                  status |-> OK,
                  body |-> [error |-> None,
                            value |-> Some(Ballot(proposal_id, promised.accepted_proposal))]]
            ELSE [acceptor |-> promised,
                  status |-> OK,
                  body |-> [error |-> None, value |-> Some(Ballot(proposal_id, None))]]

\* handle_accept that stores the value before it compares the ids
handle_accept_writes_first(acc, propose) ==
    LET written == [acc EXCEPT !.accepted_proposal = propose.value]
    IN IF acc.last_ballot_number /= propose.id
       THEN [acceptor |-> written,
             status |-> BAD_REQUEST,
             body |-> [error |-> Some(BallotMismatch), value |-> None]]
       ELSE [acceptor |-> written,
             status |-> OK,
             body |-> [error |-> None, value |-> Some([id |-> propose.id, value |-> propose.value])]]

handle_accept(acc, propose) ==
    IF acc.last_ballot_number /= propose.id
    THEN [acceptor |-> acc,
          status |-> BAD_REQUEST,
          body |-> [error |-> Some(BallotMismatch), value |-> None]]
    ELSE [acceptor |-> [acc EXCEPT !.accepted_proposal = propose.value],
          status |-> OK,
          body |-> [error |-> None, value |-> Some(Ballot(propose.id, propose.value))]]

\* handle_learn that keeps an entry already stored and writes to the next key
handle_learn_next_slot(led, payload) ==
    IF payload.id \in DOMAIN led
    THEN insert(led, payload.id + 1, unwrap_or(payload.value, ""))
    ELSE insert(led, payload.id, unwrap_or(payload.value, ""))

\* handle_learn with the arms of the match swapped
handle_learn_swapped(led, payload) ==
    IF payload.value = None
    THEN insert(led, payload.id, payload.value)
    ELSE insert(led, payload.id, "")

handle_learn(led, payload) ==
    IF payload.value = None
    THEN insert(led, payload.id, "")
    ELSE insert(led, payload.id, unwrap(payload.value))

\* ------------------------------------------------------------------ Proposer: quorum and tie-break

quorum(peers) == (Len(peers) \div 2) + 1

promise_key(promise) == IF promise.value = None THEN 0 ELSE unwrap(promise.value).id

\* Iterator::max_by_key under promise_key: the last element whose key is the
\* greatest, None of an empty sequence
max_by_key(s) ==
    IF s = <<>> THEN None
    ELSE LET top == CHOOSE k \in {promise_key(s[i]) : i \in 1..Len(s)} :
                        \A j \in 1..Len(s) : promise_key(s[j]) <= k
             at == CHOOSE i \in 1..Len(s) :
                        /\ promise_key(s[i]) = top
                        /\ \A j \in (i + 1)..Len(s) : promise_key(s[j]) /= top
         IN Some(s[at])

accepted_promise(promises) ==
    max_by_key(SelectSeq(promises, LAMBDA promise : is_some(promise.value)))

\* the resolution without the fall back of a bare promise to the caller's value
resolve_no_fall_back(promises, value) ==
    LET chosen == accepted_promise(promises)
    IN IF chosen = None THEN Some(value)
       ELSE LET payload == unwrap(chosen)
            IN IF payload.value = None THEN Some(value)
               ELSE unwrap(payload.value).value

resolve(promises, value) ==
    LET chosen == accepted_promise(promises)
    IN IF chosen = None THEN Some(value)
       ELSE LET payload == unwrap(chosen)
            IN IF payload.value = None THEN Some(value)
               ELSE LET ballot == unwrap(payload.value)
                    IN IF ballot.value = None THEN Some(value) ELSE ballot.value

\* ------------------------------------------------------------------ fan-out slots

\* at: for a promise, the id of the ballot under which the value it carries was accepted
Pending(to, req) ==
    [st |-> "pending", to |-> to, req |-> req, status |-> "", body |-> None, at |-> 0]
Answered(slot, status, body) == [slot EXCEPT !.st = "ok", !.status = status, !.body = body]
Failed(slot) == [slot EXCEPT !.st = "err"]

fan_out(peers, req) == [i \in 1..Len(peers) |-> Pending(peers[i], req)]

joined(s) == \A i \in 1..Len(s) : s[i].st /= "pending"

\* responses.into_iter().flatten(): the bodies of the requests that got a response, in order
flatten(s) ==
    LET got == SelectSeq(s, LAMBDA slot : slot.st = "ok")
    IN [i \in 1..Len(got) |-> unwrap(got[i].body)]

Ok(x) == [is_ok |-> TRUE, v |-> x]
Err(e) == [is_ok |-> FALSE, v |-> e]

\* Proposer::prepare after join_all: the promises, the quorum and the resolved Ballot
Proposer_prepare(self_id, peers, responses, value) ==
    LET promises == flatten(responses)
    IN IF Len(promises) < quorum(peers)
       THEN Err(PrepareQuorumNotReached)
       ELSE Ok(Ballot(self_id, resolve(promises, value)))

\* Proposer::propose after join_all
Proposer_propose(peers, responses) ==
    LET accepted_ballots == flatten(responses)
    IN IF Len(accepted_ballots) + 1 < quorum(peers)
       THEN Err(ProposeQuorumNotReached)
       ELSE Ok(<<>>)

\* ping without the self check
ping_no_self_check(self_id, peers, node_id) ==
    IF \E i \in 1..Len(peers) : peers[i] = node_id
    THEN [nodes |-> peers, status |-> BAD_REQUEST, body |-> [error |-> Some(DuplicatePeer), id |-> None]]
    ELSE [nodes |-> Append(peers, node_id), status |-> OK, body |-> [error |-> None, id |-> Some(self_id)]]

\* ping without the duplicate check
ping_no_duplicate_check(self_id, peers, node_id) ==
    IF node_id = self_id
    THEN [nodes |-> peers, status |-> BAD_REQUEST, body |-> [error |-> Some(SelfPeer), id |-> None]]
    ELSE [nodes |-> Append(peers, node_id), status |-> OK, body |-> [error |-> None, id |-> Some(self_id)]]

\* ping: the self check, the duplicate check and the push
ping(self_id, peers, node_id) ==
    IF node_id = self_id
    THEN [nodes |-> peers, status |-> BAD_REQUEST, body |-> [error |-> Some(SelfPeer), id |-> None]]
    ELSE IF \E i \in 1..Len(peers) : peers[i] = node_id
    THEN [nodes |-> peers, status |-> BAD_REQUEST, body |-> [error |-> Some(DuplicatePeer), id |-> None]]
    ELSE [nodes |-> Append(peers, node_id), status |-> OK, body |-> [error |-> None, id |-> Some(self_id)]]

\* ------------------------------------------------------------------ Mutex

Free == 0
NoLocks == [proposer |-> Free, nodes |-> Free, ledger |-> Free]

\* ------------------------------------------------------------------ the prepare handler (a round)

Rounds == 1..Len(round)
Slots(t) == 1..Len(round[t].resp)

\* the prepare handler beginning a round without taking the proposer Mutex
prepare_begin_no_proposer_lock(n, value) ==
    /\ Len(round) < limit.rounds
    /\ limit.serial => \A u \in Rounds : round[u].pc = "done"
    /\ n \in limit.drivers
    /\ mutex[n].nodes = Free
    /\ LET t == Len(round) + 1
           id == proposer[n].id + 1
       IN /\ proposer' = [proposer EXCEPT ![n].id = id]
          /\ mutex' = [mutex EXCEPT ![n].proposer = t, ![n].nodes = t]
          /\ round' = Append(round, [node |-> n, value |-> value, pc |-> "prepare",
                                     resp |-> fan_out(nodes[n], id),
                                     propose |-> None, err |-> None])
    /\ UNCHANGED <<nodes, acceptor, ledger, accepted_at, handshake, connects, lost, limit>>

\* lines 172-174 and 306-316: take the proposer Mutex, allocate the ballot id, take
\* the nodes Mutex and send a prepare request to every peer.  The first three guards
\* are the clients': how many values they submit, whether they wait for each other
\* and which nodes they submit to.
prepare_begin(n, value) ==
    /\ Len(round) < limit.rounds
    /\ limit.serial => \A u \in Rounds : round[u].pc = "done"
    /\ n \in limit.drivers
    /\ mutex[n].proposer = Free
    /\ mutex[n].nodes = Free
    /\ LET t == Len(round) + 1
           id == proposer[n].id + 1
       IN /\ proposer' = [proposer EXCEPT ![n].id = id]
          /\ mutex' = [mutex EXCEPT ![n].proposer = t, ![n].nodes = t]
          /\ round' = Append(round, [node |-> n, value |-> value, pc |-> "prepare",
                                     resp |-> fan_out(nodes[n], id),
                                     propose |-> None, err |-> None])
    /\ UNCHANGED <<nodes, acceptor, ledger, accepted_at, handshake, connects, lost, limit>>

\* a peer's handle_prepare serves one pending prepare request
serve_handle_prepare(t, i) ==
    /\ round[t].pc = "prepare"
    /\ round[t].resp[i].st = "pending"
    /\ LET slot == round[t].resp[i]
           r == handle_prepare(acceptor[slot.to], slot.req)
       IN /\ acceptor' = [acceptor EXCEPT ![slot.to] = r.acceptor]
          /\ round' = [round EXCEPT ![t].resp[i] =
                          [Answered(slot, r.status, Some(r.body)) EXCEPT
                              !.at = IF r.status = OK THEN accepted_at[slot.to] ELSE 0]]
    /\ UNCHANGED <<nodes, proposer, ledger, accepted_at, mutex, handshake, connects, lost, limit>>

\* the transport fails one pending request of a fan-out (send() returns Err)
request_fails(t, i) ==
    /\ lost < limit.lost
    /\ round[t].pc \in {"prepare", "propose", "learn"}
    /\ round[t].resp[i].st = "pending"
    /\ round' = [round EXCEPT ![t].resp[i] = Failed(round[t].resp[i])]
    /\ lost' = lost + 1
    /\ UNCHANGED <<nodes, acceptor, proposer, ledger, accepted_at, mutex, handshake, connects, limit>>

\* Proposer::prepare that gives the ballot id back when the quorum is not reached
Proposer_prepare_end_rollback(t) ==
    /\ round[t].pc = "prepare"
    /\ joined(round[t].resp)
    /\ LET n == round[t].node
           res == Proposer_prepare(proposer[n].id, nodes[n], round[t].resp, round[t].value)
       IN IF res.is_ok
          THEN /\ round' = [round EXCEPT ![t].pc = "prepared", ![t].resp = <<>>,
                                         ![t].propose = Some(res.v)]
               /\ mutex' = [mutex EXCEPT ![n].nodes = Free]
               /\ UNCHANGED proposer
          ELSE /\ round' = [round EXCEPT ![t].pc = "done", ![t].resp = <<>>,
                                         ![t].err = Some(res.v)]
               /\ mutex' = [mutex EXCEPT ![n].nodes = Free, ![n].proposer = Free]
               /\ proposer' = [proposer EXCEPT ![n].id = @ - 1]
    /\ UNCHANGED <<nodes, acceptor, ledger, accepted_at, handshake, connects, lost, limit>>

\* lines 318-360 and 174-177: join_all returned; count the promises, resolve the value
Proposer_prepare_end(t) ==
    /\ round[t].pc = "prepare"
    /\ joined(round[t].resp)
    /\ LET n == round[t].node
           res == Proposer_prepare(proposer[n].id, nodes[n], round[t].resp, round[t].value)
       IN IF res.is_ok
          THEN /\ round' = [round EXCEPT ![t].pc = "prepared", ![t].resp = <<>>,
                                         ![t].propose = Some(res.v)]
               /\ mutex' = [mutex EXCEPT ![n].nodes = Free]
          ELSE /\ round' = [round EXCEPT ![t].pc = "done", ![t].resp = <<>>,
                                         ![t].err = Some(res.v)]
               /\ mutex' = [mutex EXCEPT ![n].nodes = Free, ![n].proposer = Free]
    /\ UNCHANGED <<nodes, acceptor, proposer, ledger, accepted_at, handshake, connects, lost, limit>>

\* lines 179 and 362-371: take the nodes Mutex and send an accept request to every peer
Proposer_propose_begin(t) ==
    /\ round[t].pc = "prepared"
    /\ mutex[round[t].node].nodes = Free
    /\ LET n == round[t].node
       IN /\ mutex' = [mutex EXCEPT ![n].nodes = t]
          /\ round' = [round EXCEPT ![t].pc = "propose",
                                    ![t].resp = fan_out(nodes[n], unwrap(round[t].propose))]
    /\ UNCHANGED <<nodes, acceptor, proposer, ledger, accepted_at, handshake, connects, lost, limit>>

\* a peer's handle_accept serves one pending accept request
serve_handle_accept(t, i) ==
    /\ round[t].pc = "propose"
    /\ round[t].resp[i].st = "pending"
    /\ LET slot == round[t].resp[i]
           r == handle_accept(acceptor[slot.to], slot.req)
       IN /\ acceptor' = [acceptor EXCEPT ![slot.to] = r.acceptor]
          /\ accepted_at' = [accepted_at EXCEPT
                                ![slot.to] = IF r.status = OK THEN slot.req.id ELSE @]
          /\ round' = [round EXCEPT ![t].resp[i] = Answered(slot, r.status, Some(r.body))]
    /\ UNCHANGED <<nodes, proposer, ledger, mutex, handshake, connects, lost, limit>>

\* the handler going on to the learn broadcast after propose returned Err
Proposer_propose_end_no_return(t) ==
    /\ round[t].pc = "propose"
    /\ joined(round[t].resp)
    /\ LET n == round[t].node
           res == Proposer_propose(nodes[n], round[t].resp)
       IN /\ round' = [round EXCEPT ![t].pc = "proposed", ![t].resp = <<>>,
                                    ![t].err = IF res.is_ok THEN None ELSE Some(res.v)]
          /\ mutex' = [mutex EXCEPT ![n].nodes = Free]
    /\ UNCHANGED <<nodes, acceptor, proposer, ledger, accepted_at, handshake, connects, lost, limit>>

\* lines 373-387 and 179-180: join_all returned; count the accepted ballots
Proposer_propose_end(t) ==
    /\ round[t].pc = "propose"
    /\ joined(round[t].resp)
    /\ LET n == round[t].node
           res == Proposer_propose(nodes[n], round[t].resp)
       IN IF res.is_ok
          THEN /\ round' = [round EXCEPT ![t].pc = "proposed", ![t].resp = <<>>]
               /\ mutex' = [mutex EXCEPT ![n].nodes = Free]
          ELSE /\ round' = [round EXCEPT ![t].pc = "done", ![t].resp = <<>>,
                                         ![t].err = Some(res.v)]
               /\ mutex' = [mutex EXCEPT ![n].nodes = Free, ![n].proposer = Free]
    /\ UNCHANGED <<nodes, acceptor, proposer, ledger, accepted_at, handshake, connects, lost, limit>>

\* lines 181-190: take the ledger Mutex, then the nodes Mutex, and send a learn
\* request to every peer
learn_begin(t) ==
    /\ round[t].pc = "proposed"
    /\ mutex[round[t].node].ledger = Free
    /\ mutex[round[t].node].nodes = Free
    /\ LET n == round[t].node
       IN /\ mutex' = [mutex EXCEPT ![n].ledger = t, ![n].nodes = t]
          /\ round' = [round EXCEPT ![t].pc = "learn",
                                    ![t].resp = fan_out(nodes[n], unwrap(round[t].propose))]
    /\ UNCHANGED <<nodes, acceptor, proposer, ledger, accepted_at, handshake, connects, lost, limit>>

\* a peer's handle_learn takes the peer's ledger Mutex and serves one learn request
serve_handle_learn(t, i) ==
    /\ round[t].pc = "learn"
    /\ round[t].resp[i].st = "pending"
    /\ mutex[round[t].resp[i].to].ledger = Free
    /\ LET slot == round[t].resp[i]
       IN /\ ledger' = [ledger EXCEPT ![slot.to] = handle_learn(@, slot.req)]
          /\ round' = [round EXCEPT ![t].resp[i] = Answered(slot, OK, None)]
    /\ UNCHANGED <<nodes, acceptor, proposer, accepted_at, mutex, handshake, connects, lost, limit>>

\* lines 192-198: join_all returned; write the own Ledger, answer the client and
\* drop the ledger, nodes and proposer guards
learn_end(t) ==
    /\ round[t].pc = "learn"
    /\ joined(round[t].resp)
    /\ LET n == round[t].node
           ballot == unwrap(round[t].propose)
       IN /\ ledger' = [ledger EXCEPT ![n] = insert(@, ballot.id, unwrap_or(ballot.value, ""))]
          /\ mutex' = [mutex EXCEPT ![n] = NoLocks]
          /\ round' = [round EXCEPT ![t].pc = "done", ![t].resp = <<>>]
    /\ UNCHANGED <<nodes, acceptor, proposer, accepted_at, handshake, connects, lost, limit>>

\* ------------------------------------------------------------------ the connect handler (a join handshake)

\* no connect task of node n towards the port of node target
Idle == [pc |-> "idle", req |-> None, status |-> "", body |-> None]

\* lines 88-99: send a ping carrying the own id to the node listening on the port
connect_begin(n, target) ==
    /\ connects < limit.connects
    /\ handshake[n][target].pc = "idle"
    /\ handshake' = [handshake EXCEPT ![n][target] =
                        [pc |-> "ping", req |-> Some([id |-> n]), status |-> "", body |-> None]]
    /\ connects' = connects + 1
    /\ UNCHANGED <<nodes, acceptor, proposer, ledger, accepted_at, mutex, round, lost, limit>>

\* the target's ping handler serves the request; past the self check it takes the
\* target's nodes Mutex
serve_ping(n, target) ==
    /\ handshake[n][target].pc = "ping"
    /\ LET node_id == unwrap(handshake[n][target].req).id
           r == ping(target, nodes[target], node_id)
       IN /\ node_id = target \/ mutex[target].nodes = Free
          /\ nodes' = [nodes EXCEPT ![target] = r.nodes]
          /\ handshake' = [handshake EXCEPT ![n][target].pc = "pong",
                                            ![n][target].status = r.status,
                                            ![n][target].body = Some(r.body)]
    /\ UNCHANGED <<acceptor, proposer, ledger, accepted_at, mutex, round, lost, connects, limit>>

\* lines 101-102: the ping could not be sent; the handler panics at todo!() and its
\* task ends
connect_unreachable(n, target) ==
    /\ lost < limit.lost
    /\ handshake[n][target].pc = "ping"
    /\ handshake' = [handshake EXCEPT ![n][target] = Idle]
    /\ lost' = lost + 1
    /\ UNCHANGED <<nodes, acceptor, proposer, ledger, accepted_at, mutex, round, connects, limit>>

\* lines 103-121: an error status is forwarded; otherwise the handler takes the own
\* nodes Mutex and pushes the responder
connect_end(n, target) ==
    /\ handshake[n][target].pc = "pong"
    /\ LET h == handshake[n][target]
       IN IF h.status = BAD_REQUEST
          THEN UNCHANGED nodes
          ELSE /\ mutex[n].nodes = Free
               /\ nodes' = [nodes EXCEPT ![n] = Append(@, unwrap(unwrap(h.body).id))]
    /\ handshake' = [handshake EXCEPT ![n][target] = Idle]
    /\ UNCHANGED <<acceptor, proposer, ledger, accepted_at, mutex, round, lost, connects, limit>>

\* ------------------------------------------------------------------ specifications

\* the state main() constructs on every node
Fresh ==
    /\ acceptor = [n \in NodeIds |-> AcceptorDefault]
    /\ proposer = [n \in NodeIds |-> ProposerNew]
    /\ ledger = [n \in NodeIds |-> LedgerNew]
    /\ accepted_at = [n \in NodeIds |-> 0]
    /\ mutex = [n \in NodeIds |-> NoLocks]
    /\ round = <<>>
    /\ handshake = [n \in NodeIds |-> [target \in NodeIds |-> Idle]]
    /\ connects = 0
    /\ lost = 0

\* the orders in which a node can have come to know all the others
Orders(S) == {s \in [1..Cardinality(S) -> S] : \A i, j \in DOMAIN s : i /= j => s[i] /= s[j]}
FullyJoined ==
    {f \in [NodeIds -> Orders({1, 2}) \cup Orders({1, 3}) \cup Orders({2, 3})] :
        \A n \in NodeIds : f[n] \in Orders(NodeIds \ {n})}

RoundStep ==
    \/ \E n \in NodeIds, value \in Values : prepare_begin(n, value)
    \/ \E t \in Rounds : \E i \in Slots(t) : serve_handle_prepare(t, i)
    \/ \E t \in Rounds : \E i \in Slots(t) : request_fails(t, i)
    \/ \E t \in Rounds : Proposer_prepare_end(t)
    \/ \E t \in Rounds : Proposer_propose_begin(t)
    \/ \E t \in Rounds : \E i \in Slots(t) : serve_handle_accept(t, i)
    \/ \E t \in Rounds : Proposer_propose_end(t)
    \/ \E t \in Rounds : learn_begin(t)
    \/ \E t \in Rounds : \E i \in Slots(t) : serve_handle_learn(t, i)
    \/ \E t \in Rounds : learn_end(t)

JoinStep ==
    \/ \E n \in NodeIds, target \in NodeIds : connect_begin(n, target)
    \/ \E n \in NodeIds, target \in NodeIds : serve_ping(n, target)
    \/ \E n \in NodeIds, target \in NodeIds : connect_unreachable(n, target)
    \/ \E n \in NodeIds, target \in NodeIds : connect_end(n, target)

\* the cluster from construction: nodes join while rounds run
Init ==
    /\ Fresh
    /\ nodes = [n \in NodeIds |-> <<>>]
    /\ limit = [rounds |-> MaxRounds, lost |-> MaxJoinLost, connects |-> MaxConnects, serial |-> FALSE,
                drivers |-> NodeIds]
Next == JoinStep \/ RoundStep
Spec == Init /\ [][Next]_vars

\* the cluster from construction while no client submits a value: the handshakes alone
InitHandshake ==
    /\ Fresh
    /\ nodes = [n \in NodeIds |-> <<>>]
    /\ limit = [rounds |-> 0, lost |-> MaxJoinLost, connects |-> MaxConnects, serial |-> FALSE,
                drivers |-> NodeIds]
NextHandshake == JoinStep
SpecHandshake == InitHandshake /\ [][NextHandshake]_vars

\* the fully joined cluster, no round started yet.  A connect to a fully joined
\* cluster is answered with an error by ping and changes no peer list.
InitJoined ==
    /\ Fresh
    /\ nodes \in FullyJoined
    /\ limit = [rounds |-> MaxRounds, lost |-> MaxLost, connects |-> 0, serial |-> FALSE,
                drivers |-> NodeIds]
NextJoined == RoundStep
SpecJoined == InitJoined /\ [][NextJoined]_vars

\* the fully joined cluster with one more round, for rounds that contend
InitContention ==
    /\ Fresh
    /\ nodes \in FullyJoined
    /\ limit = [rounds |-> MaxRounds + 1, lost |-> MaxLost, connects |-> 0, serial |-> FALSE,
                drivers |-> NodeIds]
SpecContention == InitContention /\ [][NextJoined]_vars

\* the fully joined cluster whose clients all submit to one node, without waiting
\* for each other
InitClients ==
    /\ Fresh
    /\ nodes \in FullyJoined
    /\ \E n \in NodeIds :
          limit = [rounds |-> MaxRounds + 1, lost |-> MaxLost, connects |-> 0,
                   serial |-> FALSE, drivers |-> {n}]
SpecClients == InitClients /\ [][NextJoined]_vars

Ascending == [n \in NodeIds |-> CHOOSE s \in Orders(NodeIds \ {n}) : s[1] < s[2]]
Descending == [n \in NodeIds |-> CHOOSE s \in Orders(NodeIds \ {n}) : s[1] > s[2]]

\* the fully joined cluster whose clients submit one value at a time: a round begins
\* when every earlier round has returned.  The peer lists are in ascending order, one
\* of the orders the handshakes leave.
InitSerial ==
    /\ Fresh
    /\ nodes = Ascending
    /\ limit = [rounds |-> MaxSerialRounds, lost |-> MaxSerialLost, connects |-> 0,
                serial |-> TRUE, drivers |-> NodeIds]
SpecSerial == InitSerial /\ [][NextJoined]_vars

\* the next round of a cluster in mid-life: two nodes have driven MaxBallot rounds
\* against each other while they were the whole cluster (any of their requests may
\* have been lost), the third node has joined since and no request has reached its
\* Acceptor yet
MidAcceptor ==
    {m \in [acceptor : [last_ballot_number : BallotIds,
                        accepted_proposal : {None} \cup {Some(v) : v \in Values}],
            at : BallotIds] :
        IF m.acceptor.accepted_proposal = None
        THEN m.at = 0
        ELSE 1 <= m.at /\ m.at <= m.acceptor.last_ballot_number}
InitMid ==
    /\ nodes \in {Ascending, Descending}
    /\ ledger = [n \in NodeIds |-> LedgerNew]
    /\ mutex = [n \in NodeIds |-> NoLocks]
    /\ round = <<>>
    /\ handshake = [n \in NodeIds |-> [target \in NodeIds |-> Idle]]
    /\ connects = 0
    /\ lost = 0
    /\ limit = [rounds |-> MaxMidRounds, lost |-> MaxMidLost, connects |-> 0, serial |-> FALSE,
                drivers |-> NodeIds]
    /\ \E late \in NodeIds, driven \in {MaxBallot - 2, MaxBallot - 1},
          mid \in [NodeIds -> MidAcceptor] :
          /\ mid[late] = [acceptor |-> AcceptorDefault, at |-> 0]
          /\ acceptor = [n \in NodeIds |-> mid[n].acceptor]
          /\ accepted_at = [n \in NodeIds |-> mid[n].at]
          /\ proposer = [n \in NodeIds |-> [id |-> IF n = late THEN driven ELSE MaxBallot]]
SpecMid == InitMid /\ [][NextJoined]_vars

\* ------------------------------------------------------------------ claims

\* the rounds whose propose phase returned Ok
proposed_ok(t) == round[t].pc \in {"proposed", "learn", "done"} /\ round[t].err = None

\* C1: agreement under contention.  In a fully joined cluster no two rounds whose
\* propose phase succeeded carry different values.
C1_Agreement ==
    \A t1 \in Rounds, t2 \in Rounds :
        proposed_ok(t1) /\ proposed_ok(t2) =>
            unwrap(round[t1].propose).value = unwrap(round[t2].propose).value

\* request i of round t is pending in phase pc and answered by the peer's handler in this step
served(t, i, pc) ==
    /\ round[t].pc = pc
    /\ round'[t].pc = pc
    /\ round[t].resp[i].st = "pending"
    /\ round'[t].resp[i].st = "ok"

\* the slots of a fan-out whose peer answered with status OK
granted(resp) == {i \in 1..Len(resp) : resp[i].st = "ok" /\ resp[i].status = OK}

\* C2: last_ballot_number of an Acceptor never decreases, and a handle_prepare call
\* with an id below it fails with StaleProposal and leaves the Acceptor unchanged.
C2_StalePrepareRejected ==
    [][/\ \A n \in NodeIds :
             acceptor'[n].last_ballot_number >= acceptor[n].last_ballot_number
       /\ \A t \in Rounds : \A i \in Slots(t) :
             (/\ served(t, i, "prepare")
              /\ round[t].resp[i].req < acceptor[round[t].resp[i].to].last_ballot_number)
             => /\ round'[t].resp[i].status = BAD_REQUEST
                /\ unwrap(round'[t].resp[i].body).error = Some(StaleProposal)
                /\ acceptor' = acceptor]_vars

\* C2 witness: a prepare request was answered StaleProposal by an Acceptor that holds
\* a greater last_ballot_number
C2_Witness ==
    \E t \in Rounds : \E i \in Slots(t) :
        /\ round[t].pc = "prepare"
        /\ round[t].resp[i].st = "ok"
        /\ unwrap(round[t].resp[i].body).error = Some(StaleProposal)
        /\ round[t].resp[i].req < acceptor[round[t].resp[i].to].last_ballot_number

\* C3: handle_accept writes accepted_proposal exactly when the ballot's id equals
\* last_ballot_number; otherwise it fails with BallotMismatch and leaves the Acceptor
\* unchanged; nothing else changes accepted_proposal.
C3_AcceptWritesOnMatch ==
    [][/\ \A n \in NodeIds :
             acceptor'[n].accepted_proposal /= acceptor[n].accepted_proposal
             => \E t \in Rounds : \E i \in Slots(t) :
                    /\ served(t, i, "propose")
                    /\ round[t].resp[i].to = n
                    /\ round[t].resp[i].req.id = acceptor[n].last_ballot_number
       /\ \A t \in Rounds : \A i \in Slots(t) :
             served(t, i, "propose")
             => LET slot == round[t].resp[i]
                    answer == round'[t].resp[i]
                IN IF slot.req.id = acceptor[slot.to].last_ballot_number
                   THEN /\ acceptor'[slot.to].accepted_proposal = slot.req.value
                        /\ answer.status = OK
                   ELSE /\ acceptor' = acceptor
                        /\ answer.status = BAD_REQUEST
                        /\ unwrap(answer.body).error = Some(BallotMismatch)]_vars

\* C3 witness: one accept fan-out holds a BallotMismatch answer and an accepted ballot
\* that the accepting peer now stores
C3_Witness ==
    \E t \in Rounds : \E i \in Slots(t), j \in Slots(t) :
        /\ round[t].pc = "propose"
        /\ round[t].resp[i].st = "ok"
        /\ unwrap(round[t].resp[i].body).error = Some(BallotMismatch)
        /\ j \in granted(round[t].resp)
        /\ acceptor[round[t].resp[j].to].accepted_proposal = round[t].resp[j].req.value

\* C4: a prepare phase in which fewer than quorum nodes promised (the peers that
\* answered OK plus the driving node) ends in the abort QuorumNotReached, and the
\* round sends no accept request.
C4_PrepareNeedsPromises ==
    [][\A t \in Rounds :
          (/\ round[t].pc = "prepare"
           /\ round'[t].pc /= "prepare"
           /\ Cardinality(granted(round[t].resp)) + 1 < quorum(nodes[round[t].node]))
          => /\ round'[t].pc = "done"
             /\ round'[t].err = Some(PrepareQuorumNotReached)]_vars

\* C5: the propose phase succeeds exactly when the peers that accepted the ballot
\* plus the driving node make a quorum; otherwise the round aborts.
C5_ProposeNeedsAccepts ==
    [][\A t \in Rounds :
          (round[t].pc = "propose" /\ round'[t].pc /= "propose")
          => IF Cardinality(granted(round[t].resp)) + 1 >= quorum(nodes[round[t].node])
             THEN round'[t].pc = "proposed" /\ round'[t].err = None
             ELSE round'[t].pc = "done" /\ round'[t].err = Some(ProposeQuorumNotReached)]_vars

\* the promises of a fan-out that carry an already accepted value
valued(resp) == {i \in granted(resp) : unwrap(unwrap(resp[i].body).value).value /= None}

\* C6: when two or more promises carry accepted values, accepted under pairwise
\* different ballot ids, the prepare phase resolves to the value accepted under the
\* greatest of these ids, whatever the order of the peers.
C6_TieBreakByAcceptedId ==
    [][\A t \in Rounds :
          (/\ round[t].pc = "prepare"
           /\ round'[t].pc = "prepared"
           /\ Cardinality(valued(round[t].resp)) >= 2
           /\ \A i \in valued(round[t].resp), j \in valued(round[t].resp) :
                  i /= j => round[t].resp[i].at /= round[t].resp[j].at)
          => \E i \in valued(round[t].resp) :
                /\ \A j \in valued(round[t].resp) : round[t].resp[j].at <= round[t].resp[i].at
                /\ unwrap(round'[t].propose).value
                     = unwrap(unwrap(round[t].resp[i].body).value).value]_vars

\* C7: in the fully joined 3-node cluster, a round that ran alone with no request
\* lost ends Ok, its ballot has id 1 and the submitted value, and the Ledger of every
\* node maps the ballot id to that value.
C7_SoloRoundLearned ==
    \A t \in Rounds :
        (Len(round) = 1 /\ lost = 0 /\ round[t].pc = "done")
        => /\ round[t].err = None
           /\ round[t].propose = Some([id |-> 1, value |-> Some(round[t].value)])
           /\ \A n \in NodeIds :
                 /\ DOMAIN ledger[n] = {1}
                 /\ ledger[n][1] = round[t].value

\* C7 witness: the only round so far is done, no request was lost and the two peers
\* and the driving node hold its value under key 1
C7_Witness ==
    /\ Len(round) = 1
    /\ lost = 0
    /\ round[1].pc = "done"
    /\ \A n \in NodeIds : 1 \in DOMAIN ledger[n] /\ ledger[n][1] = round[1].value

\* C8: in the 3-node cluster a prepare phase in which one peer was unreachable and
\* the other promised reaches quorum (2 of 3): the round does not abort there.
C8_PrepareSurvivesOneUnreachable ==
    [][\A t \in Rounds :
          (/\ round[t].pc = "prepare"
           /\ round'[t].pc /= "prepare"
           /\ Len(round[t].resp) = 2
           /\ Cardinality(granted(round[t].resp)) = 1
           /\ \E i \in Slots(t) : round[t].resp[i].st = "err")
          => round'[t].pc = "prepared"]_vars

\* C9: a round that aborts leaves every Ledger unchanged, and every change of a
\* Ledger is the insert of the ballot of a round whose propose phase succeeded and
\* that is in its learn broadcast.
C9_LedgerOnlyAfterPropose ==
    [][/\ \A t \in Rounds :
             (round[t].pc /= "done" /\ round'[t].pc = "done" /\ round'[t].err /= None)
             => ledger' = ledger
       /\ \A n \in NodeIds :
             ledger'[n] /= ledger[n]
             => \E t \in Rounds :
                    /\ round[t].pc = "learn"
                    /\ round[t].err = None
                    /\ LET ballot == unwrap(round[t].propose)
                       IN ledger'[n] = insert(ledger[n], ballot.id, unwrap_or(ballot.value, ""))]_vars

\* C9 witness: a round aborted at prepare with both peers unreachable, another
\* aborted or not, and no Ledger holds an entry
C9_Witness ==
    /\ \E t \in Rounds : round[t].pc = "done" /\ round[t].err = Some(PrepareQuorumNotReached)
    /\ lost = 2
    /\ \A n \in NodeIds : ledger[n] = LedgerNew

\* C10: ping answers an error and leaves the peer list unchanged when the requester's
\* id is the responder's own id or is already in the responder's peer list.
C10_PingRejects ==
    [][\A n \in NodeIds, target \in NodeIds :
          (/\ handshake[n][target].pc = "ping"
           /\ handshake'[n][target].pc = "pong"
           /\ \/ n = target
              \/ \E i \in 1..Len(nodes[target]) : nodes[target][i] = n)
          => /\ handshake'[n][target].status = BAD_REQUEST
             /\ unwrap(handshake'[n][target].body).error
                  = Some(IF n = target THEN SelfPeer ELSE DuplicatePeer)
             /\ nodes' = nodes]_vars

\* C10 witness: one handshake was answered with the self error and another with the
\* duplicate error
C10_Witness ==
    /\ \E n \in NodeIds :
          /\ handshake[n][n].pc = "pong"
          /\ unwrap(handshake[n][n].body).error = Some(SelfPeer)
    /\ \E n \in NodeIds, target \in NodeIds :
          /\ handshake[n][target].pc = "pong"
          /\ unwrap(handshake[n][target].body).error = Some(DuplicatePeer)
          /\ \E i \in 1..Len(nodes[target]) : nodes[target][i] = n

\* C11: learn is idempotent.  After a peer's handle_learn applied a learn message to
\* its Ledger, applying the same message again leaves the entry under the ballot id
\* and the whole Ledger as they are; a message that finds its own entry already in
\* the Ledger changes nothing.
C11_LearnIdempotent ==
    [][\A t \in Rounds : \A i \in Slots(t) :
          served(t, i, "learn")
          => LET slot == round[t].resp[i]
                 once == ledger'[slot.to]
                 twice == handle_learn(once, slot.req)
             IN /\ once = handle_learn(ledger[slot.to], slot.req)
                /\ twice[slot.req.id] = once[slot.req.id]
                /\ twice = once
                /\ (/\ slot.req.id \in DOMAIN ledger[slot.to]
                    /\ ledger[slot.to][slot.req.id] = unwrap_or(slot.req.value, ""))
                   => ledger' = ledger]_vars

\* C11 witness: a peer served the learn message of a round after an earlier round had
\* finished with the same ballot id and value, and holds that value under the id
C11_Witness ==
    \E t \in Rounds, u \in Rounds : \E i \in Slots(t) :
        /\ u < t
        /\ proposed_ok(u)
        /\ round[u].pc = "done"
        /\ round[u].propose = round[t].propose
        /\ round[u].node /= round[t].resp[i].to
        /\ round[t].pc = "learn"
        /\ round[t].resp[i].st = "ok"
        /\ ledger[round[t].resp[i].to][unwrap(round[t].propose).id]
             = unwrap(unwrap(round[t].propose).value)

\* C12: every node's peer list holds at most one record per peer id, and a step only
\* appends to it, also while connect and ping handshakes run in both directions
\* between two nodes.
C12_PeersUniqueAppendOnly ==
    [][\A n \in NodeIds :
          /\ Len(nodes'[n]) >= Len(nodes[n])
          /\ \A i \in 1..Len(nodes[n]) : nodes'[n][i] = nodes[n][i]
          /\ \A i \in 1..Len(nodes'[n]), j \in 1..Len(nodes'[n]) :
                nodes'[n][i] = nodes'[n][j] => i = j]_vars

\* C13: no node's peer list contains the node's own id, and no prepare, accept or
\* learn request of a round is addressed to the node that drives the round.
C13_NoSelfPeer ==
    /\ \A n \in NodeIds : \A i \in 1..Len(nodes[n]) : nodes[n][i] /= n
    /\ \A t \in Rounds : \A i \in Slots(t) : round[t].resp[i].to /= round[t].node

\* C13 witness: a node that asked to connect to its own port was answered with the
\* self error, and drives a round whose fan-out goes to a peer
C13_Witness ==
    \E n \in NodeIds, t \in Rounds :
        /\ handshake[n][n].pc = "pong"
        /\ unwrap(handshake[n][n].body).error = Some(SelfPeer)
        /\ round[t].node = n
        /\ round[t].resp /= <<>>

\* C14: while a request of the prepare or accept fan-out of a round is outstanding,
\* the round holds the nodes Mutex of the driving node and no other guard: the
\* proposer Mutex of the driving node is free.
C14_ProposerFreeDuringFanOut ==
    \A t \in Rounds :
        (/\ round[t].pc \in {"prepare", "propose"}
         /\ \E i \in Slots(t) : round[t].resp[i].st = "pending")
        => /\ mutex[round[t].node].nodes = t
           /\ mutex[round[t].node].proposer = Free
           /\ mutex[round[t].node].ledger /= t

\* the rounds up to round t that the node of round t drives
driven_by(t) == {u \in 1..t : round[u].node = round[t].node}

\* C15: the Proposer counter of a node is the number of prepare rounds the node has
\* begun, aborted ones included, so it starts at 0 and grows by 1 per round; the k-th
\* round of a node sends prepare requests with id k and proposes a ballot with id k.
C15_CounterCountsRounds ==
    /\ \A n \in NodeIds :
          proposer[n].id = Cardinality({t \in Rounds : round[t].node = n})
    /\ \A t \in Rounds :
          /\ round[t].pc = "prepare"
             => \A i \in Slots(t) : round[t].resp[i].req = Cardinality(driven_by(t))
          /\ round[t].propose /= None
             => unwrap(round[t].propose).id = Cardinality(driven_by(t))

\* C15 witness: one node has driven three rounds, the first aborted and the third
\* proposed, and its counter is 3
C15_Witness ==
    \E n \in NodeIds :
        /\ \A t \in 1..3 : t \in Rounds /\ round[t].node = n
        /\ round[1].err /= None
        /\ proposed_ok(3)
        /\ unwrap(round[3].propose).id = 3
        /\ proposer[n].id = 3

\* C16: a prepare phase that passes its quorum test with no promise carrying an
\* accepted value does not fail: the round goes on with the Ballot of the new ballot
\* id and the caller's value.
C16_BarePromisesKeepCallerValue ==
    [][\A t \in Rounds :
          (/\ round[t].pc = "prepare"
           /\ round'[t].pc /= "prepare"
           /\ Len(flatten(round[t].resp)) >= quorum(nodes[round[t].node])
           /\ valued(round[t].resp) = {})
          => /\ round'[t].pc = "prepared"
             /\ round'[t].err = None
             /\ round'[t].propose
                  = Some(Ballot(proposer[round[t].node].id, Some(round[t].value)))]_vars

\* C16 witness: a round holds the Ballot of its caller's value after both peers
\* promised, and neither peer has an accepted value
C16_Witness ==
    \E t \in Rounds :
        /\ round[t].pc = "prepared"
        /\ round[t].propose = Some(Ballot(proposer[round[t].node].id, Some(round[t].value)))
        /\ Len(nodes[round[t].node]) = 2
        /\ \A i \in 1..2 :
              LET peer == acceptor[nodes[round[t].node][i]]
              IN /\ peer.accepted_proposal = None
                 /\ peer.last_ballot_number = proposer[round[t].node].id

\* C17: when at least one promise of a prepare phase carries an accepted value, the
\* value the round resolves to is one of the accepted values the promises carry,
\* wherever the promising peers stand in the peer list.
C17_AcceptedValueWins ==
    [][\A t \in Rounds :
          (/\ round[t].pc = "prepare"
           /\ round'[t].pc = "prepared"
           /\ valued(round[t].resp) /= {})
          => \E i \in valued(round[t].resp) :
                unwrap(round'[t].propose).value
                  = unwrap(unwrap(round[t].resp[i].body).value).value]_vars

\* C18: a handle_prepare call with an id not below last_ballot_number, equal ids
\* included, answers OK, sets last_ballot_number to the id, leaves accepted_proposal
\* as it is and replies with the Ballot of the id and the accepted value, a bare
\* promise when there is none.
C18_PrepareGranted ==
    [][\A t \in Rounds : \A i \in Slots(t) :
          (/\ served(t, i, "prepare")
           /\ round[t].resp[i].req >= acceptor[round[t].resp[i].to].last_ballot_number)
          => LET slot == round[t].resp[i]
                 answer == round'[t].resp[i]
             IN /\ answer.status = OK
                /\ unwrap(answer.body).error = None
                /\ unwrap(answer.body).value
                     = Some([id |-> slot.req,
                             value |-> acceptor[slot.to].accepted_proposal])
                /\ acceptor' = [acceptor EXCEPT ![slot.to].last_ballot_number = slot.req]]_vars

\* C18 witness: a peer granted a prepare request whose id an earlier round of another
\* node had already brought to that peer, and the promise carries the accepted value
C18_Witness ==
    \E t \in Rounds, u \in Rounds : \E i \in Slots(t) :
        /\ u < t
        /\ round[u].node /= round[t].node
        /\ proposed_ok(u)
        /\ round[t].pc = "prepare"
        /\ round[t].resp[i].st = "ok"
        /\ round[t].resp[i].status = OK
        /\ round[t].resp[i].to /= round[u].node
        /\ unwrap(round[u].propose).id = round[t].resp[i].req
        /\ unwrap(unwrap(round[t].resp[i].body).value).value /= None

\* round t is in its learn broadcast, holds the Ledger guard of its node and waits
\* for the learn handler of node n
waits_for_learn(t, n) ==
    /\ round[t].pc = "learn"
    /\ mutex[round[t].node].ledger = t
    /\ \E i \in Slots(t) : round[t].resp[i].to = n /\ round[t].resp[i].st = "pending"

\* C19: no two nodes each hold their own Ledger guard during their learn broadcast
\* while each waits for the learn handler of the other, so every round whose requests
\* are served finishes.
C19_NoLearnDeadlock ==
    \A t1 \in Rounds, t2 \in Rounds :
        ~ (/\ round[t1].node /= round[t2].node
           /\ waits_for_learn(t1, round[t2].node)
           /\ waits_for_learn(t2, round[t1].node))

\* C20: the rounds of one node are serialized.  At most one round of a node is
\* between the start of its prepare phase and the end of its learn broadcast, that
\* round holds the node's proposer Mutex, and its accept requests carry the ballot id
\* its own prepare phase allocated.
C20_RoundsSerialized ==
    \A t \in Rounds :
        round[t].pc /= "done"
        => /\ \A u \in Rounds : (u /= t /\ round[u].node = round[t].node) => round[u].pc = "done"
           /\ mutex[round[t].node].proposer = t
           /\ round[t].pc = "propose"
              => \A i \in Slots(t) : round[t].resp[i].req.id = Cardinality(driven_by(t))

\* C20 witness: the second round of a node sends accept requests with ballot id 2
\* after the node's first round has returned
C20_Witness ==
    \E t \in Rounds, u \in Rounds :
        /\ u < t
        /\ round[u].node = round[t].node
        /\ round[u].pc = "done"
        /\ round[t].pc = "propose"
        /\ \E i \in Slots(t) : round[t].resp[i].req.id = 2

====
